---- MODULE Spec2Model ----
(***************************************************************************)
(* The plant CRUD API of server/app.py: the two flask_restful resources    *)
(* Plants (/plants) and PlantByID (/plants/<int:id>), the handle_errors    *)
(* decorator around every handler, and the Plant table behind db.session.  *)
(*                                                                         *)
(* One action per HTTP handler.  A handler is an operator that returns an  *)
(* outcome record: either a (body, status) pair or a raised exception,     *)
(* together with the database it leaves behind; handle_errors turns the    *)
(* outcome into the response.  The request body is the mapping the handler *)
(* reads from request.get_json() / request.form: a function from the keys  *)
(* that are present to their values.                                       *)
(*                                                                         *)
(* models.py is not part of the sources.  The Plant table (its columns, a  *)
(* unique auto-incrementing integer primary key) follows the data model of *)
(* the specification, and request bodies carry values of that model's      *)
(* types.                                                                  *)
(***************************************************************************)
EXTENDS Integers, FiniteSets, Sequences

VARIABLES
    table,        \* the committed rows of the Plant table
    seq,          \* the table's auto-increment sequence: the largest id a row ever had
    pending,      \* db.session's unit of work: the change it has not committed
    request,      \* the request being answered, NoRequest when the server is idle
    response,     \* the (status, body) returned for it
    before,       \* history: the table as it was when the request arrived
    used,         \* history: every id a row had when the request arrived or earlier
    lastPost,     \* history: the latest earlier POST that created a row neither
                  \*          patched nor deleted since
    lastDeleted   \* history: the id removed by the latest earlier DELETE and not
                  \*          created again by a POST since

vars == <<table, seq, pending, request, response, before, used, lastPost, lastDeleted>>

-----------------------------------------------------------------------------
(* Bounds and input domains *)

\* Ids range over 1..MaxId: the ids a request may address or carry, and the
\* largest id the sequence hands out.
MaxId == 2

Ids == 1..MaxId

\* The four fields a POST must carry (validate_plant) and the columns of Plant.
required_fields == {"name", "image", "price", "is_in_stock"}

Columns == {"id"} \cup required_fields

\* A key no column of Plant is named after.
UnknownKey == "color"

\* Two plants' worth of field values.
SampleA == [name |-> "fern", image |-> "fern.png", price |-> 1, is_in_stock |-> TRUE]

SampleB == [name |-> "aloe", image |-> "aloe.png", price |-> 2, is_in_stock |-> FALSE]

Samples == {SampleA, SampleB}

\* The body with the keys K: fields from the sample s, "id" (if in K) k.
Body(K, s, k) ==
    [key \in K |-> IF key = "id" THEN k
                   ELSE IF key = UnknownKey THEN "green"
                   ELSE s[key]]

\* Bodies made of plant fields only: both samples in full, and every subset of
\* the fields of the second.
FieldBodies ==
    {Body(required_fields, SampleA, 0)}
        \cup {Body(K, SampleB, 0) : K \in SUBSET required_fields}

\* Bodies that also carry an id: with all fields, with one field.
IdBodies ==
    {Body(K \cup {"id"}, SampleA, k) : K \in {required_fields, {"price"}}, k \in Ids}

\* Bodies that carry a key that is no column: with all fields, with one field.
UnknownBodies ==
    {Body(K \cup {UnknownKey}, SampleB, 0) : K \in {required_fields, {"name"}}}

Bodies == FieldBodies \cup IdBodies \cup UnknownBodies

\* The bodies of POST requests.  A body with every required field and a key
\* that is no column reaches Plant's constructor, which is not in the sources
\* and on which the data model is silent: such a POST is not modelled.
PostBodies ==
    {data \in Bodies : required_fields \subseteq DOMAIN data => DOMAIN data \subseteq Columns}

NoBody == Body({}, SampleA, 0)

-----------------------------------------------------------------------------
(* Response bodies *)

PlantBody(d) == [kind |-> "plant", plant |-> d]

ListBody(s) == [kind |-> "list", plants |-> s]

MessageBody(t) == [kind |-> "message", message |-> t]

ErrorBody(t) == [kind |-> "error", error |-> t]

EmptyBody == [kind |-> "empty"]

-----------------------------------------------------------------------------
(* The Plant table and db.session *)

NoChange == [op |-> "none"]

IdsOf(rows) == {p.id : p \in rows}

Max(a, b) == IF a >= b THEN a ELSE b

\* Plant(**data): the new object; its id is the one given, or unset (0) until
\* the INSERT assigns it.
Plant(data) ==
    [c \in Columns |-> IF c \in DOMAIN data THEN data[c] ELSE 0]

\* db.session.add(new_plant)
session_add(new_plant) == [op |-> "insert", row |-> new_plant]

\* the session's record of attribute changes made to a loaded object
session_dirty(plant, changed) == [op |-> "update", old |-> plant, row |-> changed]

\* db.session.delete(plant)
session_delete(plant) == [op |-> "delete", old |-> plant]

\* The INSERT of a row: the id comes from the sequence unless the row has one.
InsertedRow(new_plant) ==
    IF new_plant.id = 0 THEN [new_plant EXCEPT !.id = seq + 1] ELSE new_plant

\* The row an object has once the unit of work is flushed.
Flushed(change) ==
    IF change.op = "insert" THEN InsertedRow(change.row) ELSE change.row

\* The flush of a unit of work violates the primary key when it gives a row
\* the id of another row.
ViolatesPrimaryKey(change) ==
    \/ /\ change.op = "insert"
       /\ InsertedRow(change.row).id \in IdsOf(table)
    \/ /\ change.op = "update"
       /\ change.row.id # change.old.id
       /\ change.row.id \in IdsOf(table)

\* The table after the flush of a unit of work.
Applied(change) ==
    CASE change.op = "none" -> table
      [] change.op = "insert" -> table \cup {InsertedRow(change.row)}
      [] change.op = "update" -> (table \ {change.old}) \cup {change.row}
      [] change.op = "delete" -> table \ {change.old}

\* The sequence after the flush: it never falls behind an id a row has had.
Advanced(change) ==
    IF change.op \in {"insert", "update"} THEN Max(seq, Flushed(change).id) ELSE seq

-----------------------------------------------------------------------------
(* Handler outcomes *)

\* return body, status (nothing left in the session, the database as given)
Return(body, status, tbl, sq) ==
    [exc |-> "none", description |-> "", status |-> status, body |-> body,
     table |-> tbl, seq |-> sq, pending |-> NoChange]

\* raise exc(description) with the session holding the change `pend`
Raise(exc, description, pend) ==
    [exc |-> exc, description |-> description, status |-> 0, body |-> EmptyBody,
     table |-> table, seq |-> seq, pending |-> pend]


-----------------------------------------------------------------------------
(* server/app.py *)

\* Variant of validate_plant: any() in place of all().
validate_plant_any(data) == \E field \in required_fields : field \in DOMAIN data

\* validate_plant(data): TRUE when it returns data, FALSE when it raises
\* BadRequest("Missing required field").
validate_plant(data) == \A field \in required_fields : field \in DOMAIN data

\* Variant of plant_to_dict: name and image read from each other's attribute.
plant_to_dict_swapped(plant) ==
    [id |-> plant.id,
     name |-> plant.image,
     image |-> plant.name,
     price |-> plant.price,
     is_in_stock |-> plant.is_in_stock]

plant_to_dict(plant) ==
    [id |-> plant.id,
     name |-> plant.name,
     image |-> plant.image,
     price |-> plant.price,
     is_in_stock |-> plant.is_in_stock]

\* db.session.rollback(): the session drops what it has not committed.
session_rollback(h) == [h EXCEPT !.pending = NoChange]

\* Variant of handle_errors: the catch-all branch without db.session.rollback().
handle_errors_no_rollback(h) ==
    CASE h.exc = "none" -> h
      [] h.exc = "NotFound" ->
            [h EXCEPT !.status = 404, !.body = ErrorBody(h.description)]
      [] h.exc = "BadRequest" ->
            [h EXCEPT !.status = 400, !.body = ErrorBody(h.description)]
      [] h.exc = "Unauthorized" ->
            [h EXCEPT !.status = 401, !.body = ErrorBody(h.description)]
      [] h.exc = "Forbidden" ->
            [h EXCEPT !.status = 403, !.body = ErrorBody(h.description)]
      [] h.exc = "InternalServerError" ->
            [h EXCEPT !.status = 500, !.body = ErrorBody("Internal server error")]
      [] OTHER ->
            [h EXCEPT !.status = 422, !.body = MessageBody(h.description)]

\* handle_errors(func): the wrapper's result for the outcome h of func.
handle_errors(h) ==
    CASE h.exc = "none" -> h
      [] h.exc = "NotFound" ->
            [h EXCEPT !.status = 404, !.body = ErrorBody(h.description)]
      [] h.exc = "BadRequest" ->
            [h EXCEPT !.status = 400, !.body = ErrorBody(h.description)]
      [] h.exc = "Unauthorized" ->
            [h EXCEPT !.status = 401, !.body = ErrorBody(h.description)]
      [] h.exc = "Forbidden" ->
            [h EXCEPT !.status = 403, !.body = ErrorBody(h.description)]
      [] h.exc = "InternalServerError" ->
            [h EXCEPT !.status = 500, !.body = ErrorBody("Internal server error")]
      [] OTHER ->
            [session_rollback(h) EXCEPT
                !.status = 422, !.body = MessageBody(h.description)]

\* The rows of a non-empty set in the order a scan of the table returns them.
RECURSIVE Scan(_)
Scan(rows) ==
    IF rows = {} THEN <<>>
    ELSE LET first == CHOOSE p \in rows : \A q \in rows : p.id <= q.id
         IN  <<first>> \o Scan(rows \ {first})

\* Variant of Plants.get: without the test for an empty result.
Plants_get_no_test ==
    LET plants == Scan(table)
    IN  Return(ListBody([i \in 1..Len(plants) |-> plant_to_dict(plants[i])]),
               200, table, seq)

\* Plants.get
Plants_get ==
    LET plants == Scan(table)
    IN  IF plants = <<>>
        THEN Return(MessageBody("Plant not found"), 404, table, seq)
        ELSE Return(ListBody([i \in 1..Len(plants) |-> plant_to_dict(plants[i])]),
                    200, table, seq)

\* Variant of Plants.post: without db.session.commit().
Plants_post_no_commit(data) ==
    IF ~validate_plant(data)
    THEN Raise("BadRequest", "Missing required field", NoChange)
    ELSE LET new_plant == Plant(data)
             change == session_add(new_plant)
         IN  Return(PlantBody(plant_to_dict(Flushed(change))), 201, table, seq)

\* Plants.post
Plants_post(data) ==
    IF ~validate_plant(data)
    THEN Raise("BadRequest", "Missing required field", NoChange)
    ELSE LET new_plant == Plant(data)
             change == session_add(new_plant)
         IN  IF ViolatesPrimaryKey(change)
             THEN Raise("IntegrityError", "UNIQUE constraint failed", change)
             ELSE Return(PlantBody(plant_to_dict(Flushed(change))), 201,
                         Applied(change), Advanced(change))

\* Variant of get_plant_by_id: the select without its where clause.
get_plant_by_id_any(id) ==
    IF table = {} THEN {}
    ELSE {CHOOSE p \in table : \A q \in table : p.id <= q.id}

\* PlantByID.get_plant_by_id: the rows select(Plant).where(Plant.id == id)
\* returns; first() is the one row of the set, None when the set is empty.
get_plant_by_id(id) == {p \in table : p.id = id}

\* PlantByID.get
PlantByID_get(id) ==
    LET found == get_plant_by_id(id)
    IN  IF found = {}
        THEN Return(MessageBody("Plant not found"), 404, table, seq)
        ELSE Return(PlantBody(plant_to_dict(CHOOSE p \in found : TRUE)), 200,
                    table, seq)

\* Variant of the setattr loop: it stops after the key "name".
setattrs_first(plant, data) ==
    [c \in Columns |-> IF c \in DOMAIN data /\ c = "name" THEN data[c] ELSE plant[c]]

\* for key, value in data.items(): setattr(plant, key, value)
\* An attribute that is no column is set on the object and never stored.
setattrs(plant, data) ==
    [c \in Columns |-> IF c \in DOMAIN data THEN data[c] ELSE plant[c]]

\* PlantByID.patch
PlantByID_patch(id, data) ==
    LET found == get_plant_by_id(id)
    IN  IF found = {}
        THEN Return(MessageBody("Plant not found"), 404, table, seq)
        ELSE LET plant == CHOOSE p \in found : TRUE
                 changed == setattrs(plant, data)
                 change == IF changed = plant THEN NoChange
                           ELSE session_dirty(plant, changed)
             IN  IF ViolatesPrimaryKey(change)
                 THEN Raise("IntegrityError", "UNIQUE constraint failed", change)
                 ELSE Return(PlantBody(plant_to_dict(changed)), 200,
                             Applied(change), Advanced(change))

\* PlantByID.delete
PlantByID_delete(id) ==
    LET found == get_plant_by_id(id)
    IN  IF found = {}
        THEN Return(MessageBody("Plant not found"), 404, table, seq)
        ELSE LET plant == CHOOSE p \in found : TRUE
                 change == session_delete(plant)
             IN  Return(EmptyBody, 204, Applied(change), Advanced(change))

-----------------------------------------------------------------------------
(* History *)

NoPost == [id |-> 0]

\* The latest POST whose row has not been written since, after the request
\* req got the response resp.
PostTracked(lp, req, resp) ==
    IF req.method = "POST" /\ resp.status = 201
    THEN [id |-> resp.body.plant.id,
          submitted |-> [f \in required_fields |-> req.body[f]],
          returned |-> resp.body.plant]
    ELSE IF req.method \in {"PATCH", "DELETE"} /\ req.id = lp.id
    THEN NoPost
    ELSE lp

\* The id deleted last and not created again, after req got the response resp.
DeleteTracked(ld, req, resp) ==
    IF req.method = "DELETE" /\ resp.status = 204
    THEN req.id
    ELSE IF req.method = "POST" /\ resp.status = 201 /\ resp.body.plant.id = ld
    THEN 0
    ELSE ld

-----------------------------------------------------------------------------
(* The state machine *)

NoRequest == [method |-> "NONE", path |-> "", id |-> 0, body |-> NoBody]

NoResponse == [status |-> 0, body |-> EmptyBody]

Init ==
    /\ table = {}
    /\ seq = 0
    /\ pending = NoChange
    /\ request = NoRequest
    /\ response = NoResponse
    /\ before = {}
    /\ used = {}
    /\ lastPost = NoPost
    /\ lastDeleted = 0

\* The server handles one request at a time: it takes the next one when the
\* response to the last has been sent.
Idle == request = NoRequest

\* The request req is handled by the handler whose outcome is h0; the response
\* is what handle_errors makes of the outcome.
Serve(req, h0) ==
    LET h == handle_errors(h0)
    IN  /\ table' = h.table
        /\ seq' = h.seq
        /\ pending' = h.pending
        /\ request' = req
        /\ response' = [status |-> h.status, body |-> h.body]
        /\ before' = table
        /\ UNCHANGED <<used, lastPost, lastDeleted>>

\* GET /plants
PlantsGet ==
    /\ Idle
    /\ Serve([method |-> "GET", path |-> "/plants", id |-> 0, body |-> NoBody],
             Plants_get)

\* POST /plants; the sequence hands out no id beyond MaxId.
PlantsPost ==
    /\ Idle
    /\ \E data \in PostBodies :
        /\ "id" \in DOMAIN data \/ seq < MaxId
        /\ Serve([method |-> "POST", path |-> "/plants", id |-> 0, body |-> data],
                 Plants_post(data))

\* GET /plants/<id>
PlantByIDGet ==
    /\ Idle
    /\ \E id \in Ids :
        Serve([method |-> "GET", path |-> "/plants/<id>", id |-> id, body |-> NoBody],
              PlantByID_get(id))

\* PATCH /plants/<id>
PlantByIDPatch ==
    /\ Idle
    /\ \E id \in Ids, data \in Bodies :
        Serve([method |-> "PATCH", path |-> "/plants/<id>", id |-> id, body |-> data],
              PlantByID_patch(id, data))

\* DELETE /plants/<id>
PlantByIDDelete ==
    /\ Idle
    /\ \E id \in Ids :
        Serve([method |-> "DELETE", path |-> "/plants/<id>", id |-> id, body |-> NoBody],
              PlantByID_delete(id))

\* The response is sent; the exchange enters the history and the server is
\* ready for the next request.
SendResponse ==
    /\ ~Idle
    /\ request' = NoRequest
    /\ response' = NoResponse
    /\ before' = table
    /\ used' = used \cup IdsOf(table)
    /\ lastPost' = PostTracked(lastPost, request, response)
    /\ lastDeleted' = DeleteTracked(lastDeleted, request, response)
    /\ UNCHANGED <<table, seq, pending>>

Next ==
    \/ PlantsGet
    \/ PlantsPost
    \/ PlantByIDGet
    \/ PlantByIDPatch
    \/ PlantByIDDelete
    \/ SendResponse

Spec == Init /\ [][Next]_vars

-----------------------------------------------------------------------------
(* Vocabulary of the properties *)

ById == request.path = "/plants/<id>"

\* The row with the id i among rows.
RowOf(rows, i) == CHOOSE p \in rows : p.id = i

\* The four non-id fields of a record.
FieldsOf(d) == [f \in required_fields |-> d[f]]

HasAllFields(data) == required_fields \subseteq DOMAIN data

MappedStatuses == {200, 201, 204, 400, 401, 403, 404, 422, 500}

-----------------------------------------------------------------------------
(* C1 *)

\* C1: a POST /plants whose body contains all of name, image, price and
\* is_in_stock returns 201 and a plant whose id is a positive integer that no
\* plant had before (deleted plants included), and that plant is in the store.
PostCreatesFreshId ==
    (request.method = "POST" /\ HasAllFields(request.body)) =>
        /\ response.status = 201
        /\ response.body.kind = "plant"
        /\ response.body.plant.id > 0
        /\ response.body.plant.id \notin used
        /\ response.body.plant \in table

-----------------------------------------------------------------------------
(* C2 *)

\* C2: a plant keeps its id from its creation to its deletion, whatever the
\* requests (a PATCH that carries an id key included), and no two plants in
\* the store share an id: an id leaves the store only by a DELETE of that id,
\* enters it only by a POST, and every id in the store belongs to one row.
IdAssignedOnce ==
    /\ Cardinality(IdsOf(table)) = Cardinality(table)
    /\ request.method # "DELETE" => IdsOf(before) \subseteq IdsOf(table)
    /\ request.method = "DELETE" => IdsOf(before) \ {request.id} \subseteq IdsOf(table)
    /\ request.method # "POST" => IdsOf(table) \subseteq IdsOf(before)

-----------------------------------------------------------------------------
(* C3 *)

\* C3: a POST /plants whose body lacks at least one of name, image, price,
\* is_in_stock returns 400 with the description "Missing required field",
\* whichever fields are missing, and leaves the stored plants as they were.
MissingFieldRejected ==
    (request.method = "POST" /\ ~HasAllFields(request.body)) =>
        /\ response.status = 400
        /\ response.body = ErrorBody("Missing required field")
        /\ table = before

\* A POST that carries three of the four fields was refused while a plant was
\* stored.
MissingFieldWitness ==
    /\ request.method = "POST"
    /\ DOMAIN request.body = {"name", "image", "price"}
    /\ response.status = 400
    /\ table # {}

-----------------------------------------------------------------------------
(* C4 *)

\* C4: a PATCH /plants/{id} on an existing plant whose body is any subset of
\* the non-id fields returns 200 and the updated record, sets exactly the
\* fields the body names to the values it gives and leaves the plant's other
\* fields as they were; it is never refused for the fields it does not name.
PatchSetsNamedFields ==
    (/\ request.method = "PATCH"
     /\ request.id \in IdsOf(before)
     /\ DOMAIN request.body \subseteq required_fields) =>
        LET old == RowOf(before, request.id)
            new == [c \in Columns |->
                        IF c \in DOMAIN request.body THEN request.body[c] ELSE old[c]]
        IN  /\ response.status = 200
            /\ response.body = PlantBody(new)
            /\ table = (before \ {old}) \cup {new}

\* A PATCH that names only price changed the price of a plant and left its
\* name, image and stock flag, which differ from the other sample's.
PatchWitness ==
    /\ request.method = "PATCH"
    /\ DOMAIN request.body = {"price"}
    /\ response.status = 200
    /\ \E old \in before :
          /\ old.id = request.id
          /\ old.price # request.body.price
          /\ [old EXCEPT !.price = request.body.price] \in table
          /\ FieldsOf(old) = SampleA

-----------------------------------------------------------------------------
(* C5 *)

\* C5: a DELETE /plants/{id} on an existing plant returns 204 with an empty
\* body and removes the row; from then on every GET, PATCH or DELETE on that
\* id returns 404, until a later request creates a plant with that id.
DeletedStaysGone ==
    /\ (request.method = "DELETE" /\ request.id \in IdsOf(before)) =>
          /\ response.status = 204
          /\ response.body = EmptyBody
          /\ request.id \notin IdsOf(table)
    /\ (ById /\ lastDeleted # 0 /\ request.id = lastDeleted) =>
          response.status = 404

-----------------------------------------------------------------------------
(* C6 *)

\* C6: GET /plants/{id} returns 404 with the message "Plant not found" when no
\* plant with that id is stored, and otherwise 200 with exactly the id, name,
\* image, price and is_in_stock stored for that plant.
GetReturnsStored ==
    (request.method = "GET" /\ ById) =>
        IF request.id \notin IdsOf(table)
        THEN /\ response.status = 404
             /\ response.body = MessageBody("Plant not found")
        ELSE /\ response.status = 200
             /\ response.body = PlantBody(RowOf(table, request.id))

\* A GET by id answered 200 while two plants were stored, the one returned
\* carrying values of both samples.
GetWitness ==
    /\ request.method = "GET"
    /\ ById
    /\ response.status = 200
    /\ Cardinality(table) = 2
    /\ response.body.plant.name = "fern"
    /\ response.body.plant.image = "aloe.png"

-----------------------------------------------------------------------------
(* C7 *)

\* C7: a successful POST returns the field values its body submitted, and a
\* GET on the returned id, with no PATCH or DELETE of that id in between,
\* returns those same values and the same record, however often it is repeated.
RoundTrip ==
    /\ (request.method = "POST" /\ response.status = 201) =>
          FieldsOf(response.body.plant) = FieldsOf(request.body)
    /\ (request.method = "GET" /\ ById /\ request.id = lastPost.id) =>
          /\ response.status = 200
          /\ response.body = PlantBody(lastPost.returned)
          /\ FieldsOf(response.body.plant) = lastPost.submitted

\* A GET read back the plant of the latest POST after another plant of the
\* store had been deleted and a third request had been served in between.
RoundTripWitness ==
    /\ request.method = "GET"
    /\ ById
    /\ request.id = lastPost.id
    /\ response.status = 200
    /\ lastDeleted # 0
    /\ lastDeleted # request.id

-----------------------------------------------------------------------------
(* C8 *)

\* C8: GET /plants returns 404 with the message "Plant not found" exactly when
\* no plant is stored, and otherwise 200 with one record per stored plant: no
\* stored plant is missing and no deleted plant is listed.
ListReturnsAll ==
    (request.method = "GET" /\ ~ById) =>
        IF table = {}
        THEN /\ response.status = 404
             /\ response.body = MessageBody("Plant not found")
        ELSE /\ response.status = 200
             /\ response.body.kind = "list"
             /\ Len(response.body.plants) = Cardinality(table)
             /\ {response.body.plants[i] : i \in 1..Len(response.body.plants)} = table

\* The list was returned with one plant after another plant had been deleted.
ListWitness ==
    /\ request.method = "GET"
    /\ ~ById
    /\ response.status = 200
    /\ Len(response.body.plants) = 1
    /\ lastDeleted # 0
    /\ lastDeleted \notin IdsOf(table)

-----------------------------------------------------------------------------
(* C9 *)

\* A write that gives a row the id of another stored row: the flush raises an
\* exception that is none of the HTTP error kinds.
WriteCollides ==
    /\ "id" \in DOMAIN request.body
    /\ request.body.id \in IdsOf(before)
    /\ \/ request.method = "POST" /\ HasAllFields(request.body)
       \/ /\ request.method = "PATCH"
          /\ request.id \in IdsOf(before)
          /\ request.body.id # request.id

\* C9: every request ends in one of the mapped statuses; a write that fails
\* with an exception that is no HTTP error kind is answered 422 with the
\* error text, its transaction is rolled back, and the stored plants are what
\* they were before it: the session holds nothing of it for a later request.
FailuresRolledBack ==
    /\ request.method # "NONE" => response.status \in MappedStatuses
    /\ WriteCollides => response.status = 422
    /\ response.status = 422 =>
          /\ response.body.kind = "message"
          /\ table = before
    /\ pending = NoChange

\* A PATCH that named a new price and the id of another plant was answered 422.
RollbackWitness ==
    /\ request.method = "PATCH"
    /\ DOMAIN request.body = {"price", "id"}
    /\ response.status = 422
    /\ RowOf(before, request.id).price # request.body.price

-----------------------------------------------------------------------------
(* C10 *)

\* C10: a PATCH or DELETE addressed to id i changes no stored plant but the
\* one with id i, and every GET and every request answered 404 leaves the
\* whole store as it was.
FrameOfRequests ==
    /\ request.method \in {"PATCH", "DELETE"} =>
          /\ {p \in before : p.id # request.id} \subseteq table
          /\ Cardinality(table \ before) <= 1
          /\ table # before => request.id \in IdsOf(before)
    /\ request.method = "DELETE" => table \subseteq before
    /\ (request.method = "GET" \/ response.status = 404) =>
          /\ table = before
          /\ pending = NoChange

\* A DELETE removed one plant of two and the other is still stored.
FrameWitness ==
    /\ request.method = "DELETE"
    /\ response.status = 204
    /\ Cardinality(before) = 2
    /\ Cardinality(table) = 1
    /\ request.id \notin IdsOf(table)

====
